---- MODULE Spec2Model ----
(***************************************************************************)
(* SpartaWebSocket (main.go): three Lambda handlers over one DynamoDB      *)
(* connections table and the API Gateway management API.                   *)
(*   connectWorld     PutItem of the connection id                         *)
(*   disconnectWorld  deleteConnection of the connection id                *)
(*   sendMessage      unmarshal the body, ScanPages over the table, post   *)
(*                    the data to every item, `go deleteConnection` on a   *)
(*                    GoneException                                        *)
(* The table, the gateway's connections and the detached goroutines are    *)
(* the shared state; one sendMessage invocation is followed step by step.  *)
(***************************************************************************)
EXTENDS Integers, Sequences, FiniteSets, TLC

\* ------------------------------------------------------------- bounds
MaxConnections == 3
MaxPageSize == 2

ConnectionIDs == 1..MaxConnections

\* ------------------------------------------------------------- values
Nil == "nil"
StoreUnavailable == "StoreUnavailable"
StoreErrs == {Nil, StoreUnavailable}

ErrCodeGoneException == "GoneException"

\* respErr of PostToConnectionWithContext, as the words of respErr.Error()
NoErr == << >>
GoneErr == <<"GoneException", "status code: 410">>
TransientErrs == {<<"LimitExceededException", "status code: 429">>,
                  <<"RequestError", "send request failed">>}

VARIABLES
  registry,     \* the connections table: id -> number of items with that key
  conn,         \* the gateway's view of each connection: new, open, closed
  pending,      \* ids of the `go deleteConnection` goroutines not yet run
  out,          \* the lifecycle event observed in the last step (SpecEvents)
  pc,           \* position of the sendMessage invocation
  body,         \* request.Body of the invocation
  cursor,       \* last key evaluated by the scan
  page,         \* output.Items not yet iterated by scanCallback
  lastPage,     \* lastPage of the page in hand
  scanItemErr,  \* scanItemErr
  fetched,      \* number of pages the scan returned to the callback
  scanned,      \* ids of the items of those pages
  posts,        \* id -> the PostToConnection calls of the invocation
  sched,        \* ids the invocation ran `go deleteConnection` for
  stable,       \* ids in the table since the invocation began
  stale,        \* id -> whether a detached delete for its item was lost or
                \* refused: "no", "new" (since the invocation began), "old"
  resp          \* the wsResponse the invocation returned

sendVars == <<pc, body, cursor, page, lastPage, scanItemErr, fetched, scanned,
              posts, sched, stable, resp>>
vars == <<registry, conn, pending, out, stale, pc, body, cursor, page, lastPage,
          scanItemErr, fetched, scanned, posts, sched, stable, resp>>

\* ------------------------------------------------------------- wsResponse
wsResponse(code, text) == [StatusCode |-> code, Body |-> text]

NoResponse == wsResponse(0, << >>)

HasPrefix(text, prefix) == Len(text) >= 1 /\ text[1] = prefix

\* strings.Contains over the words of an error
Contains(s, word) == \E i \in 1..Len(s) : s[i] = word

\* ------------------------------------------------------------- the table
Present(items, id) == items[id] > 0

\* PutItem as if the table were not keyed by the id: one more item each time
PutItemAppends(items, id) == [items EXCEPT ![id] = @ + 1]

\* PutItem on a table keyed by connectionID: the item replaces any item with
\* the same key
PutItem(items, id) == [items EXCEPT ![id] = 1]

\* DeleteItem that takes one item off the count, present or not
DeleteItemDecrements(items, id) == [items EXCEPT ![id] = @ - 1]

\* DeleteItem by key: removes the item if there is one, succeeds either way
DeleteItem(items, id) == [items EXCEPT ![id] = 0]

\* ------------------------------------------------------------- lifecycle
NoEvent == [op |-> "none", id |-> 0, err |-> Nil, was |-> FALSE,
            response |-> NoResponse]

Event(op, id, err, was, response) ==
  [op |-> op, id |-> id, err |-> err, was |-> was, response |-> response]

\* connectWorld dropping putItemErr
connectResponseDropsErr(putItemErr) == wsResponse(200, <<"Connected.">>)

connectResponse(putItemErr) ==
  IF putItemErr # Nil
    THEN wsResponse(500, <<"Failed to connect: ", putItemErr>>)
    ELSE wsResponse(200, <<"Connected.">>)

disconnectResponse(delItemErr) ==
  IF delItemErr # Nil
    THEN wsResponse(500, <<"Failed to disconnect: ", delItemErr>>)
    ELSE wsResponse(200, <<"Disconnected.">>)

\* deleteConnection that never reaches the table
deleteConnectionNoop(items, id, delItemErr) == items

\* deleteConnection(connectionID, ddbService): the table after the call
deleteConnection(items, id, delItemErr) ==
  IF delItemErr = Nil THEN DeleteItem(items, id) ELSE items

\* ids that leave `stable` when the table changes from items to items2
StillStable(items2) == {id \in stable : Present(items2, id)}

\* a connect that waits for the broadcast in progress to return
connectWorldLocked(id, putItemErr) ==
  /\ pc \in {"idle", "returned", "panicked"}
  /\ conn[id] \in {"new", "open"}
  /\ registry' = IF putItemErr = Nil THEN PutItem(registry, id) ELSE registry
  /\ conn' = [conn EXCEPT ![id] =
                IF putItemErr = Nil THEN "open"
                ELSE IF conn[id] = "new" THEN "closed" ELSE conn[id]]
  /\ UNCHANGED <<pending, sendVars>>

\* $connect: the gateway hands a new connection's id (or the id of an open
\* one again) to connectWorld
connectWorld(id, putItemErr) ==
  /\ conn[id] \in {"new", "open"}
  /\ registry' = IF putItemErr = Nil THEN PutItem(registry, id) ELSE registry
  /\ conn' = [conn EXCEPT ![id] =
                IF putItemErr = Nil THEN "open"
                ELSE IF conn[id] = "new" THEN "closed" ELSE conn[id]]
  /\ UNCHANGED <<pending, sendVars>>

\* $disconnect: the gateway closes the connection and calls disconnectWorld
disconnectWorld(id, delItemErr) ==
  /\ conn[id] \in {"open", "closed"}
  /\ registry' = deleteConnection(registry, id, delItemErr)
  /\ conn' = [conn EXCEPT ![id] = "closed"]
  /\ stable' = StillStable(registry')
  /\ UNCHANGED <<pending, pc, body, cursor, page, lastPage, scanItemErr,
                 fetched, scanned, posts, sched, resp>>

\* a connection that dies without a $disconnect
connectionLost(id) ==
  /\ conn[id] = "open"
  /\ conn' = [conn EXCEPT ![id] = "closed"]
  /\ UNCHANGED <<registry, pending, sendVars>>

\* ------------------------------------------------------------- request body
\* request.Body as the JSON document it holds (fields: the members of an
\* object, each with its raw text)
Doc(kind, fields) == [kind |-> kind, fields |-> fields]

Bodies ==
  { Doc("invalid", {}),                                \* {"data":
    Doc("null", {}),                                   \* null
    Doc("array", {}),                                  \* ["data"]
    Doc("object", {}),                                 \* {}
    Doc("object", {<<"data", "null">>}),               \* {"data":null}
    Doc("object", {<<"data", "hello">>}),              \* {"data":"hello"}
    Doc("object", {<<"message", "sendmessage">>,
                   <<"data", "world">>}) }

\* json.Unmarshal([]byte(request.Body), &objMap), objMap a
\* map[string]*json.RawMessage: a null member becomes a nil pointer, the
\* document null leaves the map nil, anything but an object is an error
Unmarshal(b) ==
  CASE b.kind = "invalid" -> [err |-> "SyntaxError", objMap |-> {}]
    [] b.kind = "null" -> [err |-> Nil, objMap |-> {}]
    [] b.kind = "object" ->
         [err |-> Nil,
          objMap |-> {<<f[1], IF f[2] = "null" THEN Nil ELSE f[2]>> :
                        f \in b.fields}]
    [] OTHER -> [err |-> "UnmarshalTypeError", objMap |-> {}]

\* objMap[key]: nil for a key the map does not hold
MapGet(objMap, key) ==
  IF \E f \in objMap : f[1] = key
    THEN (CHOOSE f \in objMap : f[1] = key)[2]
    ELSE Nil

\* the guard of line 115
unmarshalFailed(u) == u.err # Nil \/ MapGet(u.objMap, "data") = Nil

\* lines 116-119: the response is built from unmarshalErr.Error(), which
\* dereferences a nil error when only the data member is missing
unmarshalFailure(unmarshalErr) ==
  IF unmarshalErr = Nil
    THEN [pc |-> "panicked", resp |-> NoResponse]
    ELSE [pc |-> "returned",
          resp |-> wsResponse(500, <<"Failed to unmarshal request: ",
                                     unmarshalErr>>)]

\* *objMap["data"] of the invocation
Data == MapGet(Unmarshal(body).objMap, "data")

\* ------------------------------------------------------------- the scan
Min(a, b) == IF a < b THEN a ELSE b

Copies(id, k) == [i \in 1..k |-> id]

\* the items of the table with a key after `from`, in key order
RECURSIVE ItemsAfter(_, _)
ItemsAfter(items, from) ==
  IF from >= MaxConnections THEN << >>
  ELSE Copies(from + 1, items[from + 1]) \o ItemsAfter(items, from + 1)

\* a scan that drops the cursor: every page starts at the first key again
ScanPageFromStart(items, from, n) ==
  LET rest == ItemsAfter(items, 0)
  IN  [Items |-> SubSeq(rest, 1, Min(n, Len(rest))),
       lastPage |-> Len(rest) <= n]

\* a scan that resumes by position, after as many items as it handed out
ScanPageByOffset(items, from, n) ==
  LET all == ItemsAfter(items, 0)
      rest == SubSeq(all, Cardinality(scanned) + 1, Len(all))
  IN  [Items |-> SubSeq(rest, 1, Min(n, Len(rest))),
       lastPage |-> Len(rest) <= n]

\* one page of the scan: at most n items after the cursor
ScanPage(items, from, n) ==
  LET rest == ItemsAfter(items, from)
  IN  [Items |-> SubSeq(rest, 1, Min(n, Len(rest))),
       lastPage |-> Len(rest) <= n]

\* sendMessage dropping scanItemErr
sendResponseIgnoresErr(scanErr) == wsResponse(200, <<"Data sent.">>)

\* sendMessage with the test of scanItemErr inverted
sendResponseInverted(scanErr) ==
  IF scanErr = Nil
    THEN wsResponse(500, <<"Failed to send message: ", scanErr>>)
    ELSE wsResponse(200, <<"Data sent.">>)

\* lines 154-164
sendResponse(scanErr) ==
  IF scanErr # Nil
    THEN wsResponse(500, <<"Failed to send message: ", scanErr>>)
    ELSE wsResponse(200, <<"Data sent.">>)

\* scanCallback returning false: the scan stops after its first page
scanCallbackStops == FALSE

\* the value scanCallback returns (line 144)
scanCallbackReturn == TRUE

\* scanCallback returning from inside its loop, after the first item
afterItemLeavesPage(rest, last) == IF last THEN "returned" ELSE "scan"

\* a scan that fetches the next page before the items of this one are posted
afterItemPrefetches(rest, last) ==
  IF ~last THEN "scan"
  ELSE IF rest # << >> THEN "fanout"
  ELSE "returned"

\* where ScanPagesWithContext goes once `rest` of the page is left: on to the
\* next item, to the next page while the callback returns true and the page
\* was not the last, else back to sendMessage
afterItem(rest, last) ==
  IF rest # << >> THEN "fanout"
  ELSE IF scanCallbackReturn /\ ~last THEN "scan"
  ELSE "returned"

\* ------------------------------------------------------------- sendMessage
EmptyID == 0

Idle == pc \in {"idle", "returned", "panicked"}

\* lines 99-120: a new invocation, up to the unmarshal check
sendMessage(b) ==
  /\ Idle
  /\ body' = b
  /\ cursor' = 0
  /\ page' = << >>
  /\ lastPage' = FALSE
  /\ scanItemErr' = Nil
  /\ fetched' = 0
  /\ scanned' = {}
  /\ posts' = [id \in ConnectionIDs |-> << >>]
  /\ sched' = {}
  /\ stable' = {id \in ConnectionIDs : Present(registry, id)}
  /\ LET u == Unmarshal(b)
     IN  IF unmarshalFailed(u)
           THEN /\ pc' = unmarshalFailure(u.err).pc
                /\ resp' = unmarshalFailure(u.err).resp
           ELSE /\ pc' = "scan"
                /\ resp' = NoResponse
  /\ UNCHANGED <<registry, conn, pending>>

\* a failing scan that calls off the deletes the invocation handed out
scanFailsRollsBack(err) ==
  /\ pc = "scan"
  /\ err # Nil
  /\ scanItemErr' = err
  /\ pc' = "returned"
  /\ resp' = sendResponse(err)
  /\ pending' = pending \ sched
  /\ sched' = {}
  /\ UNCHANGED <<registry, conn, body, cursor, page, lastPage,
                 fetched, scanned, posts, stable>>

\* lines 151-159: the scan fails; sendMessage returns
scanFails(err) ==
  /\ pc = "scan"
  /\ err # Nil
  /\ scanItemErr' = err
  /\ pc' = "returned"
  /\ resp' = sendResponse(err)
  /\ UNCHANGED <<registry, conn, pending, body, cursor, page, lastPage,
                 fetched, scanned, posts, sched, stable>>

\* lines 151-153: the scan hands the next page of at most n items to
\* scanCallback
scanPage(n) ==
  /\ pc = "scan"
  /\ LET p == ScanPage(registry, cursor, n)
     IN  /\ page' = p.Items
         /\ lastPage' = p.lastPage
         /\ cursor' = IF p.Items = << >> THEN cursor
                      ELSE p.Items[Len(p.Items)]
         /\ pc' = afterItem(p.Items, p.lastPage)
         /\ resp' = IF afterItem(p.Items, p.lastPage) = "returned"
                      THEN sendResponse(Nil) ELSE NoResponse
         /\ scanned' = scanned \cup {p.Items[i] : i \in 1..Len(p.Items)}
  /\ fetched' = fetched + 1
  /\ UNCHANGED <<registry, conn, pending, body, scanItemErr, posts, sched,
                 stable>>

Post(data, result) == [Data |-> data, result |-> result]

\* the post handed to a goroutine: the loop moves on without its answer
postToConnectionDetached ==
  /\ pc = "fanout"
  /\ page # << >>
  /\ posts' = [posts EXCEPT ![Head(page)] = Append(@, Post(Data, "InFlight"))]
  /\ page' = Tail(page)
  /\ pc' = afterItem(Tail(page), lastPage)
  /\ resp' = IF afterItem(Tail(page), lastPage) = "returned"
               THEN sendResponse(Nil) ELSE NoResponse
  /\ UNCHANGED <<registry, conn, pending, body, cursor, lastPage,
                 scanItemErr, fetched, scanned, sched, stable>>

\* lines 125-133: PostToConnectionWithContext is called for the next item
postToConnection ==
  /\ pc = "fanout"
  /\ page # << >>
  /\ posts' = [posts EXCEPT ![Head(page)] = Append(@, Post(Data, "InFlight"))]
  /\ pc' = "posting"
  /\ UNCHANGED <<registry, conn, pending, body, cursor, page, lastPage,
                 scanItemErr, fetched, scanned, sched, stable, resp>>

\* what the gateway can answer for a connection
PostErrs(id) ==
  IF conn[id] = "open" THEN {NoErr} \cup TransientErrs
  ELSE {GoneErr} \cup TransientErrs

\* the delivery result the gateway's answer stands for
DeliveryResult(respErr) ==
  IF respErr = NoErr THEN "Delivered"
  ELSE IF respErr = GoneErr THEN "Gone"
  ELSE "Transient"

\* cleanup after any error of the post
isGoneAnyError(receiverConnection, respErr) == respErr # NoErr

\* cleanup after every answer that carries a status code, throttling included
isGoneByStatusCode(receiverConnection, respErr) ==
  /\ respErr # NoErr
  /\ receiverConnection # EmptyID
  /\ \/ Contains(respErr, "status code: 410")
     \/ Contains(respErr, "status code: 429")

\* cleanup only for a connection no delete was lost for before
isGoneOnce(receiverConnection, respErr) ==
  /\ respErr # NoErr
  /\ receiverConnection # EmptyID
  /\ Contains(respErr, ErrCodeGoneException)
  /\ stale[receiverConnection] = "no"

\* lines 134-136: the answers sendMessage cleans up after
isGone(receiverConnection, respErr) ==
  /\ respErr # NoErr
  /\ receiverConnection # EmptyID
  /\ Contains(respErr, ErrCodeGoneException)

\* the delete made in the loop itself, before it moves on
tableAfterPostDeletes(items, receiverConnection, respErr) ==
  IF isGone(receiverConnection, respErr)
    THEN DeleteItem(items, receiverConnection)
    ELSE items

\* line 138: the table when the loop moves on: the delete was only handed to
\* `go`, the callback itself changes nothing
tableAfterPost(items, receiverConnection, respErr) == items

\* lines 133-144: the call returns respErr; on a GoneException the delete is
\* handed to a goroutine; the loop moves on
postReturns(respErr) ==
  /\ pc = "posting"
  /\ LET id == Head(page)
         n == Len(posts[id])
     IN  /\ respErr \in PostErrs(id)
         /\ posts' = [posts EXCEPT ![id][n].result = DeliveryResult(respErr)]
         /\ IF isGone(id, respErr)
              THEN /\ pending' = pending \cup {id}
                   /\ sched' = sched \cup {id}
              ELSE UNCHANGED <<pending, sched>>
  /\ registry' = tableAfterPost(registry, Head(page), respErr)
  /\ page' = Tail(page)
  /\ pc' = afterItem(Tail(page), lastPage)
  /\ resp' = IF afterItem(Tail(page), lastPage) = "returned"
               THEN sendResponse(Nil) ELSE NoResponse
  /\ UNCHANGED <<conn, body, cursor, lastPage, scanItemErr,
                 fetched, scanned, stable>>

\* ------------------------------------------------------------- goroutines
\* line 138: a detached deleteConnection runs; its error is dropped
cleanupRuns(id, delItemErr) ==
  /\ id \in pending
  /\ registry' = deleteConnection(registry, id, delItemErr)
  /\ pending' = pending \ {id}
  /\ stable' = StillStable(registry')
  /\ UNCHANGED <<conn, pc, body, cursor, page, lastPage, scanItemErr,
                 fetched, scanned, posts, sched, resp>>

\* the process ends before a detached deleteConnection ran
cleanupLost(id) ==
  /\ id \in pending
  /\ pending' = pending \ {id}
  /\ UNCHANGED <<registry, conn, sendVars>>

\* ------------------------------------------------------------- specification
Init ==
  /\ registry = [id \in ConnectionIDs |-> 0]
  /\ conn = [id \in ConnectionIDs |-> "new"]
  /\ pending = {}
  /\ out = NoEvent
  /\ stale = [id \in ConnectionIDs |-> "no"]
  /\ pc = "idle"
  /\ body = Doc("null", {})
  /\ cursor = 0
  /\ page = << >>
  /\ lastPage = FALSE
  /\ scanItemErr = Nil
  /\ fetched = 0
  /\ scanned = {}
  /\ posts = [id \in ConnectionIDs |-> << >>]
  /\ sched = {}
  /\ stable = {}
  /\ resp = NoResponse

\* the event a lifecycle handler's return is observed as
connectEvent(id, putItemErr) ==
  Event("connect", id, putItemErr, Present(registry, id),
        connectResponse(putItemErr))

disconnectEvent(id, delItemErr) ==
  Event("disconnect", id, delItemErr, Present(registry, id),
        disconnectResponse(delItemErr))

\* the history of detached deletes that did not reach the table: an item is
\* marked when its delete is lost or refused, the mark ages when the next
\* invocation of sendMessage begins, and goes with the item
staleAfter(begins) ==
  [id \in ConnectionIDs |->
    IF Present(registry, id) /\ ~Present(registry', id) THEN "no"
    ELSE IF id \in pending \ pending' /\ Present(registry, id)
            /\ stale[id] = "no" THEN "new"
    ELSE IF begins /\ stale[id] = "new" THEN "old"
    ELSE stale[id]]

\* a step whose return is not observed
Unobserved(begins) == out' = out /\ stale' = staleAfter(begins)

Next ==
  \/ \E id \in ConnectionIDs, err \in StoreErrs :
       connectWorld(id, err) /\ Unobserved(FALSE)
  \/ \E id \in ConnectionIDs, err \in StoreErrs :
       disconnectWorld(id, err) /\ Unobserved(FALSE)
  \/ \E id \in ConnectionIDs : connectionLost(id) /\ Unobserved(FALSE)
  \/ \E b \in Bodies : sendMessage(b) /\ Unobserved(TRUE)
  \/ \E err \in StoreErrs : scanFails(err) /\ Unobserved(FALSE)
  \/ \E n \in 1..MaxPageSize : scanPage(n) /\ Unobserved(FALSE)
  \/ postToConnection /\ Unobserved(FALSE)
  \/ \E respErr \in {NoErr, GoneErr} \cup TransientErrs :
       postReturns(respErr) /\ Unobserved(FALSE)
  \/ \E id \in ConnectionIDs, err \in StoreErrs :
       cleanupRuns(id, err) /\ Unobserved(FALSE)
  \/ \E id \in ConnectionIDs : cleanupLost(id) /\ Unobserved(FALSE)

Spec == Init /\ [][Next]_vars

\* the same steps, with the lifecycle handlers' returns observed in `out`
\* a step whose return is observed as event e
Observed(e) == out' = e /\ UNCHANGED stale

NextEvents ==
  \/ \E id \in ConnectionIDs, err \in StoreErrs :
       connectWorld(id, err) /\ Observed(connectEvent(id, err))
  \/ \E id \in ConnectionIDs, err \in StoreErrs :
       disconnectWorld(id, err) /\ Observed(disconnectEvent(id, err))
  \/ \E id \in ConnectionIDs : connectionLost(id) /\ Observed(NoEvent)
  \/ \E b \in Bodies : sendMessage(b) /\ Observed(NoEvent)
  \/ \E err \in StoreErrs : scanFails(err) /\ Observed(NoEvent)
  \/ \E n \in 1..MaxPageSize : scanPage(n) /\ Observed(NoEvent)
  \/ postToConnection /\ Observed(NoEvent)
  \/ \E respErr \in {NoErr, GoneErr} \cup TransientErrs :
       postReturns(respErr) /\ Observed(NoEvent)
  \/ \E id \in ConnectionIDs, err \in StoreErrs :
       cleanupRuns(id, err) /\ Observed(NoEvent)
  \/ \E id \in ConnectionIDs : cleanupLost(id) /\ Observed(NoEvent)

SpecEvents == Init /\ [][NextEvents]_vars

\* the steps under the assumption that every detached deleteConnection is run
\* and the table accepts its delete
cleanupDone(id) == cleanupRuns(id, Nil) /\ UNCHANGED <<out, stale>>

NextCleaned ==
  \/ \E id \in ConnectionIDs, err \in StoreErrs :
       connectWorld(id, err) /\ UNCHANGED <<out, stale>>
  \/ \E id \in ConnectionIDs, err \in StoreErrs :
       disconnectWorld(id, err) /\ UNCHANGED <<out, stale>>
  \/ \E id \in ConnectionIDs : connectionLost(id) /\ UNCHANGED <<out, stale>>
  \/ \E b \in Bodies : sendMessage(b) /\ UNCHANGED <<out, stale>>
  \/ \E err \in StoreErrs : scanFails(err) /\ UNCHANGED <<out, stale>>
  \/ \E n \in 1..MaxPageSize : scanPage(n) /\ UNCHANGED <<out, stale>>
  \/ postToConnection /\ UNCHANGED <<out, stale>>
  \/ \E respErr \in {NoErr, GoneErr} \cup TransientErrs :
       postReturns(respErr) /\ UNCHANGED <<out, stale>>
  \/ \E id \in ConnectionIDs : cleanupDone(id)

LiveSpec ==
  /\ Init
  /\ [][NextCleaned]_vars
  /\ \A id \in ConnectionIDs : WF_vars(cleanupDone(id))

\* ------------------------------------------------------------- properties
Returned == pc = "returned"

WellFormed == ~unmarshalFailed(Unmarshal(body))

DataSent == wsResponse(200, <<"Data sent.">>)

Results(id) == {posts[id][i].result : i \in 1..Len(posts[id])}

ScanComplete == fetched >= 1 /\ lastPage /\ page = << >>

\* C1: a sendMessage invocation whose body does not parse, or parses without
\* a data member (or with a null one), ends with the response 500 "Failed to
\* unmarshal request: ...", having fetched no page and posted to no connection
C1_MalformedBodyRejected ==
  (pc # "idle" /\ unmarshalFailed(Unmarshal(body))) =>
    /\ Returned
    /\ resp.StatusCode = 500
    /\ HasPrefix(resp.Body, "Failed to unmarshal request: ")
    /\ fetched = 0
    /\ \A id \in ConnectionIDs : posts[id] = << >>

\* C2: no invocation ends in a panic; one that ended returned a wsResponse
\* with a status code and a body
C2_AlwaysStructuredResponse ==
  /\ pc # "panicked"
  /\ Returned => (resp.StatusCode \in {200, 500} /\ resp.Body # << >>)

\* C3: a well-formed broadcast whose scan succeeds returns 200 "Data sent."
\* and has posted the payload to every connection that was registered
\* throughout it
C3_BroadcastCompleteness ==
  (Returned /\ WellFormed /\ scanItemErr = Nil) =>
    /\ resp = DataSent
    /\ \A id \in stable :
         /\ posts[id] # << >>
         /\ \A i \in 1..Len(posts[id]) : posts[id][i].Data = Data

\* three registered, reachable connections, all posted to, 200 returned
C3_Witness ==
  /\ Returned /\ WellFormed /\ resp = DataSent
  /\ stable = ConnectionIDs
  /\ \A id \in ConnectionIDs :
       conn[id] = "open" /\ Results(id) = {"Delivered"}

\* C4 as stated: once a post of the broadcast was answered Gone, the entry is
\* eventually absent from the table (every detached delete being run and
\* accepted), and the broadcast returns 200 "Data sent."
C4_SelfHealingAlways200 ==
  /\ \A id \in ConnectionIDs : (id \in sched) ~> ~Present(registry, id)
  /\ [](Returned /\ sched # {} => resp = DataSent)

\* C4, amended: once a post of the broadcast was answered Gone, the entry is
\* eventually absent from the table (every detached delete being run and
\* accepted), and the broadcast returns 200 "Data sent." whenever its scan
\* completes without error
C4_SelfHealing ==
  /\ \A id \in ConnectionIDs : (id \in sched) ~> ~Present(registry, id)
  /\ [](Returned /\ sched # {} /\ scanItemErr = Nil => resp = DataSent)

\* the entry answered Gone is gone from the table after a 200
C4_Witness ==
  /\ Returned /\ resp = DataSent
  /\ \E id \in sched :
       "Gone" \in Results(id) /\ id \notin pending /\ ~Present(registry, id)

\* C5: when the scan fails, sendMessage has returned 500 "Failed to send
\* message: <cause>", nothing of the invocation is left running, and only
\* entries of the pages before the failing one were posted to
C5_ScanFailurePropagation ==
  scanItemErr # Nil =>
    /\ Returned
    /\ resp = wsResponse(500, <<"Failed to send message: ", scanItemErr>>)
    /\ page = << >>
    /\ \A id \in ConnectionIDs :
         posts[id] # << >> => (id \in scanned /\ id <= cursor)

\* the second page failed: the first was posted to, an entry after it was not
C5_Witness ==
  /\ scanItemErr # Nil /\ fetched = 1 /\ Returned
  /\ \E id \in ConnectionIDs : posts[id] # << >>
  /\ \E id \in ConnectionIDs :
       id > cursor /\ Present(registry, id) /\ posts[id] = << >>

\* C6: whatever the posts are answered, every connection the scan returned
\* is posted to (or still ahead in the page in hand), and a broadcast whose
\* scan completed returns 200 "Data sent."
C6_DeliveryFailureIsolation ==
  /\ \A id \in scanned :
       \/ posts[id] # << >>
       \/ \E i \in 1..Len(page) : page[i] = id
  /\ (Returned /\ WellFormed) =>
       /\ \A id \in scanned : posts[id] # << >>
       /\ ScanComplete => resp = DataSent

\* a Transient and a Gone answer, then a Delivered one, and 200
C6_Witness ==
  /\ Returned /\ resp = DataSent
  /\ Results(1) = {"Transient"}
  /\ Results(2) = {"Gone"}
  /\ Results(3) = {"Delivered"}

\* C7: the broadcast ran `go deleteConnection` for exactly the ids whose post
\* was answered Gone; a goroutine is added only for such an id, and an entry
\* leaves the table only by a disconnect or by such a goroutine
C7_GoneOnlyTriggersCleanup ==
  /\ [](\A id \in ConnectionIDs : id \in sched <=> "Gone" \in Results(id))
  /\ [][\A id \in ConnectionIDs :
          /\ (id \in pending' /\ id \notin pending) =>
               (id \in sched' /\ "Gone" \in Results(id)')
          /\ (Present(registry, id) /\ ~Present(registry', id)) =>
               (disconnectWorld(id, Nil) \/ cleanupRuns(id, Nil))]_vars

\* registry {1, 2, 3} answered Delivered, Gone, Transient: 2 is removed,
\* 1 and 3 remain, 200
C7_Witness ==
  /\ Returned /\ resp = DataSent
  /\ Results(1) = {"Delivered"}
  /\ Results(2) = {"Gone"}
  /\ Results(3) = {"Transient"}
  /\ sched = {2} /\ pending = {}
  /\ Present(registry, 1) /\ ~Present(registry, 2) /\ Present(registry, 3)

\* C8: a well-formed broadcast returns 200 "Data sent." exactly when its scan
\* completed without error
C8_OutcomeDecidedByScan ==
  (Returned /\ WellFormed) =>
    /\ resp = DataSent <=> scanItemErr = Nil
    /\ resp = DataSent <=> ScanComplete

\* 200 with a Gone and a Transient answer and a cleanup that did not delete
C8_Witness ==
  /\ Returned /\ resp = DataSent
  /\ \E id \in ConnectionIDs : "Transient" \in Results(id)
  /\ \E id \in sched : id \notin pending /\ Present(registry, id)

\* C9: no key has more than one item in the table, and a connect the table
\* accepted leaves exactly one item for its id and returns 200 "Connected."
C9_IdempotentInsert ==
  /\ \A id \in ConnectionIDs : registry[id] <= 1
  /\ (out.op = "connect" /\ out.err = Nil) =>
       /\ registry[out.id] = 1
       /\ out.response = wsResponse(200, <<"Connected.">>)

\* a connect for an id that already had its item
C9_Witness ==
  /\ out.op = "connect" /\ out.err = Nil /\ out.was
  /\ registry[out.id] = 1
  /\ out.response.StatusCode = 200

\* C10: a disconnect the table accepted returns 200 "Disconnected." and
\* leaves no item for its id; one for an id without an item leaves the table
\* as it was, and so does a detached delete for such an id
C10_IdempotentDelete ==
  /\ []((out.op = "disconnect" /\ out.err = Nil) =>
          /\ out.response = wsResponse(200, <<"Disconnected.">>)
          /\ ~Present(registry, out.id))
  /\ [][/\ (out'.op = "disconnect" /\ out'.err = Nil /\ ~out'.was) =>
             registry' = registry
        /\ \A id \in ConnectionIDs :
             (cleanupRuns(id, Nil) /\ ~Present(registry, id)) =>
               registry' = registry]_vars

\* a disconnect for an id that had no item
C10_Witness ==
  /\ out.op = "disconnect" /\ out.err = Nil /\ ~out.was
  /\ out.response.StatusCode = 200
  /\ ~Present(registry, out.id)

\* C11: connectWorld returns 200 "Connected." exactly when the table took
\* the item and 500 "Failed to connect: <cause>" when it did not;
\* disconnectWorld returns 200 "Disconnected." exactly when the table took
\* the delete and 500 "Failed to disconnect: <cause>" when it did not; a
\* failed call leaves the table as it was
C11_LifecycleFailureContract ==
  /\ [](out.op = "connect" =>
          /\ out.response = wsResponse(200, <<"Connected.">>) <=> out.err = Nil
          /\ out.err = Nil => Present(registry, out.id)
          /\ out.err # Nil =>
               out.response = wsResponse(500, <<"Failed to connect: ",
                                               out.err>>))
  /\ [](out.op = "disconnect" =>
          /\ out.response = wsResponse(200, <<"Disconnected.">>) <=>
               out.err = Nil
          /\ out.err = Nil => ~Present(registry, out.id)
          /\ out.err # Nil =>
               out.response = wsResponse(500, <<"Failed to disconnect: ",
                                               out.err>>))
  /\ [][(out'.op # "none" /\ out'.err # Nil) => registry' = registry]_vars

\* a disconnect the table refused: 500, and the item is still there
C11_Witness ==
  /\ out.op = "disconnect" /\ out.err = StoreUnavailable /\ out.was
  /\ out.response.StatusCode = 500
  /\ HasPrefix(out.response.Body, "Failed to disconnect: ")
  /\ Present(registry, out.id)

InFlight == {id \in ConnectionIDs : "InFlight" \in Results(id)}

\* a step of the invocation other than the return of the post in flight
MovesOn ==
  \/ postToConnection /\ UNCHANGED <<out, stale>>
  \/ \E n \in 1..MaxPageSize : scanPage(n) /\ UNCHANGED <<out, stale>>
  \/ \E err \in StoreErrs : scanFails(err) /\ UNCHANGED <<out, stale>>

C13_CleanupOffCriticalPath ==
  /\ [](pc = "fanout" => ENABLED (postToConnection /\ UNCHANGED <<out, stale>>))
  /\ [][/\ (sched' # sched /\ sched' # {}) =>
             /\ registry' = registry
             /\ sched' \ sched \subseteq pending'
             /\ pc' \in {"fanout", "scan", "returned"}
        /\ (pending' # pending /\ pending' \subseteq pending) =>
             UNCHANGED <<pc, resp, page, cursor, fetched, posts, sched>>]_vars

\* 200 returned while the delete for a Gone entry has not run
C13_Witness ==
  /\ Returned /\ resp = DataSent
  /\ \E id \in sched \cap pending : Present(registry, id)

\* C14: an invocation posts to a connection id at most once, whatever the
\* post is answered and whatever connects, disconnects and detached deletes
\* happen during its scan
C14_SingleAttempt == \A id \in ConnectionIDs : Len(posts[id]) <= 1

\* a Transient and a Gone answer, neither posted again, and an entry that was
\* disconnected while the broadcast ran
C14_Witness ==
  /\ Returned
  /\ \E id \in ConnectionIDs : posts[id] = <<Post(Data, "Transient")>>
  /\ \E id \in ConnectionIDs : posts[id] = <<Post(Data, "Gone")>>
  /\ \E id \in scanned :
       id \notin stable /\ id \notin sched /\ ~Present(registry, id)

\* ids whose item outlived a detached delete lost before this invocation began
Stale == {id \in ConnectionIDs : stale[id] = "old"}

\* C15 as stated: every broadcast that scans a stale item and has the answer
\* of its post has been answered Gone and has scheduled a new delete.
C15_RediscoversGone ==
  \A id \in Stale :
    (posts[id] # << >> /\ id \notin InFlight) =>
      ("Gone" \in Results(id) /\ id \in sched)

\* C15: an item whose detached delete was lost or refused stays in the table
\* (its connection is closed); a later broadcast whose scan returns it posts to
\* it once, the post is never answered with success, and whenever the answer
\* is Gone a new delete is scheduled. The answer can also be another error,
\* and then no delete is scheduled by that broadcast.
C15_StaleRediscovered ==
  /\ [](\A id \in ConnectionIDs :
         stale[id] # "no" => (Present(registry, id) /\ conn[id] = "closed"))
  /\ [](\A id \in Stale :
         /\ "Delivered" \notin Results(id)
         /\ "Gone" \in Results(id) <=> id \in sched
         /\ (Returned /\ id \in scanned) => Len(posts[id]) = 1)
  /\ [][\A id \in ConnectionIDs :
         (stale[id] = "no" /\ stale'[id] = "new") =>
           (registry' = registry /\ id \in pending /\ id \notin pending')]_vars

\* a stale item answered Gone again with a new delete waiting, and another
\* stale item answered with a different error and no delete scheduled
C15_Witness ==
  /\ Returned
  /\ \E id \in Stale :
       posts[id] = <<Post(Data, "Gone")>> /\ id \in sched \cap pending
  /\ \E id \in Stale :
       posts[id] = <<Post(Data, "Transient")>> /\ id \notin sched

\* C16: in every state, whatever the broadcast is doing (scanning, waiting
\* for a post, with detached deletes waiting), a connect for every connection
\* the gateway can open and a disconnect for every connection it can close
\* can be handled to completion in one step; a step of a lifecycle handler
\* taken while a broadcast runs leaves the broadcast where it was.
C16_RegistrationsNeverBlocked ==
  /\ [](\A id \in ConnectionIDs :
         /\ conn[id] \in {"new", "open"} =>
              ENABLED (connectWorld(id, Nil) /\ Unobserved(FALSE))
         /\ conn[id] \in {"open", "closed"} =>
              ENABLED (disconnectWorld(id, Nil) /\ Unobserved(FALSE)))
  /\ [][(conn' # conn /\ ~Idle) =>
          UNCHANGED <<pc, page, cursor, posts, sched, pending, resp>>]_vars

\* a post in flight and a detached delete waiting, after one connection was
\* registered and another, already scanned, was removed during the broadcast
C16_Witness ==
  /\ pc = "posting"
  /\ pending # {}
  /\ \E id \in ConnectionIDs : Present(registry, id) /\ id \notin stable
  /\ \E id \in scanned :
       ~Present(registry, id) /\ id \notin sched /\ id \notin pending

\* C17: a page is fetched only when every item of the pages before it has
\* been posted to and answered, and a well-formed invocation returns only
\* after the page the table marked as last, or with the scan's error: the
\* callback never ends the scan itself.
C17_PageAtATime ==
  /\ [](pc = "scan" =>
         /\ page = << >>
         /\ InFlight = {}
         /\ \A id \in scanned : posts[id] # << >>)
  /\ [][fetched' > fetched =>
          /\ page = << >>
          /\ InFlight = {}
          /\ \A id \in scanned : posts[id] # << >>]_vars
  /\ []((Returned /\ WellFormed) => (ScanComplete \/ scanItemErr # Nil))
  /\ [][(pc \in {"fanout", "posting"} /\ pc' = "returned") =>
          (lastPage /\ page' = << >> /\ scanItemErr' = Nil)]_vars

\* a scan of three pages or more that was consumed to its last page
C17_Witness ==
  /\ Returned
  /\ ScanComplete
  /\ scanItemErr = Nil
  /\ fetched >= 3
  /\ Cardinality(scanned) = MaxConnections
  /\ \A id \in scanned : Len(posts[id]) = 1

\* C18: when a well-formed broadcast returns after a scan without error,
\* every connection whose item was in the table from the start of the
\* invocation to its return was scanned and posted to exactly once, and the
\* post was answered, whatever was registered or removed meanwhile.
C18_StableMembersReached ==
  (Returned /\ WellFormed /\ scanItemErr = Nil) =>
    \A id \in stable :
      /\ id \in scanned
      /\ Len(posts[id]) = 1
      /\ posts[id][1].result \in {"Delivered", "Gone", "Transient"}

\* a stable connection posted to once, in a broadcast during which one
\* connection was registered and the item of another was removed after its
\* post had been answered Gone
C18_Witness ==
  /\ Returned /\ WellFormed /\ scanItemErr = Nil
  /\ \E id \in stable : posts[id] = <<Post(Data, "Delivered")>>
  /\ \E id \in ConnectionIDs : Present(registry, id) /\ id \notin stable
  /\ \E id \in sched : ~Present(registry, id) /\ id \notin pending

\* the response of a broadcast whose scan failed
SendFailed ==
  /\ Returned
  /\ resp.StatusCode = 500
  /\ resp.Body # << >>
  /\ Head(resp.Body) = "Failed to send message: "

\* C19: a broadcast that returns 500 "Failed to send message: ..." has posted,
\* once each and with the answer received, to exactly the items of the pages
\* it was handed before the scan failed, and has scheduled a delete for
\* exactly those answered Gone; the failing step itself changes neither the
\* posts made, nor the deletes scheduled or waiting, nor the table.
C19_PartialDeliveryOnScanFailure ==
  /\ [](SendFailed =>
         /\ {id \in ConnectionIDs : posts[id] # << >>} = scanned
         /\ \A id \in scanned :
              /\ Len(posts[id]) = 1
              /\ posts[id][1].Data = Data
              /\ posts[id][1].result \in {"Delivered", "Gone", "Transient"}
              /\ posts[id][1].result = "Gone" <=> id \in sched)
  /\ [][(~SendFailed /\ SendFailed') =>
          UNCHANGED <<posts, scanned, sched, pending, registry>>]_vars

\* a failed broadcast after one post answered with success and one answered
\* Gone whose delete is still waiting, with a registered connection that was
\* never posted to
C19_Witness ==
  /\ SendFailed
  /\ \E id \in scanned : posts[id] = <<Post(Data, "Delivered")>>
  /\ \E id \in sched \cap pending : Present(registry, id)
  /\ \E id \in stable : id \notin scanned /\ posts[id] = << >>

====
